---- MODULE Spec2Model ----
(***************************************************************************)
(* Model of usefull_function/create_dummy_data.py: the synthetic           *)
(* hypertension dataset generator.                                         *)
(*                                                                         *)
(* Two state machines share the row-level operators:                       *)
(*   Spec     - create_dummy_data() statement by statement over a whole    *)
(*              DataFrame (columns of cells), with the random draws taken   *)
(*              from small families of vectors;                            *)
(*   SpecRisk - one row drawn by the feature/lifestyle samplers and scored *)
(*              by calculate_risk().                                       *)
(*                                                                         *)
(* Fixed point.  Python floats are modelled by exact scaled integers:      *)
(*   weight_kg, belly_circumference_cm   hundredths (9000 = 90.0)          *)
(*   height_cm, age                      units                             *)
(*   target_prevalence, missing probs    hundredths (29 = 0.29)            *)
(*   normalised scores                   ScoreOne = 1.0                    *)
(*   risk                                RiskOne  = 1.0                    *)
(* The one place where the model cannot decide a float comparison exactly  *)
(* (the tolerance test of the prevalence loop when the exact difference is *)
(* 0.01) is a choice fixed per run, fp_tie.                                *)
(***************************************************************************)
EXTENDS Integers, Sequences, FiniteSets, TLC

VARIABLES
    \* ---- create_dummy_data() ----
    n_samples,          \* argument n_samples
    target_prevalence,  \* argument target_prevalence, in hundredths
    fp_tie,             \* TRUE: abs(mean - t) > 0.01 evaluates true when the exact difference is 0.01
    pc,                 \* index into Program of the next statement
    status,             \* "running" | "returned" | "ValueError"
    data,               \* the DataFrame: column name -> sequence of cells
    probabilities,      \* local variable probabilities (line 194), RiskOne = 1.0
    n_outliers,         \* local variable n_outliers
    outlier_indices,    \* local variable outlier_indices (0-based row positions)
    log,                \* history: the pipeline stages completed so far, in order
    \* ---- calculate_risk(row) on one sampled row ----
    rpc,                \* "idle" | "row" | "scored" | "returned"
    row,                \* the sampled row
    genetic_score,
    lifestyle_score,
    health_score,
    risk

dvars == <<n_samples, target_prevalence, fp_tie, pc, status, data, probabilities,
           n_outliers, outlier_indices, log>>
rvars == <<rpc, row, genetic_score, lifestyle_score, health_score, risk>>
vars == <<n_samples, target_prevalence, fp_tie, pc, status, data, probabilities,
          n_outliers, outlier_indices, log,
          rpc, row, genetic_score, lifestyle_score, health_score, risk>>

(***************************************************************************)
(* Bounds of the model.                                                    *)
(***************************************************************************)
\* Vectors of at most MaxFull entries are enumerated in full; longer random
\* vectors are taken from a small family of patterns.
MaxFull == 4

(***************************************************************************)
(* Helpers.                                                                *)
(***************************************************************************)
Abs(x) == IF x < 0 THEN -x ELSE x

\* np.clip(x, lo, hi)
clip_identity(x, lo, hi) == x
clip(x, lo, hi) == IF x < lo THEN lo ELSE IF x > hi THEN hi ELSE x

\* 1.0 for a normalised score: the normalisers 3.0, 5.0, 4.0, 2.5 and 2.1 (30, 50,
\* 40, 25, 21 tenths) all divide it.
ScoreOne == 30 * 140
\* 1.0 for a risk: the weights are hundredths of a score.
RiskOne == ScoreOne * 100

(***************************************************************************)
(* Row-level sampling (lines 33-48, 51-64).                                *)
(***************************************************************************)
\* generate_weight(height, age) with its draw base_bmi made explicit; result in
\* hundredths of a kg: base_bmi * (height/100)**2.
generate_weight(height, age, base_bmi) == (base_bmi * height * height) \div 100

\* The mean of the base_bmi distribution generate_weight draws from.
base_bmi_mean(age) == IF age < 35 THEN 28 ELSE 25

\* belly_circumference_cm (lines 46-48), hundredths: weight*0.5 + (60|50) + noise.
belly_circumference(weight, age, noise) ==
    weight \div 2 + (IF age < 35 THEN 6000 ELSE 5000) + noise

\* get_lifestyle_probs(age): the four probability lists, in hundredths.
get_lifestyle_probs(age) ==
    IF age < 35
    THEN << <<40, 10, 50>>, <<70, 30>>, <<30, 70>>, <<30, 70>> >>
    ELSE << <<60, 30, 10>>, <<40, 60>>, <<60, 40>>, <<60, 40>> >>

\* np.random.choice(values, p=probs): the values of positive probability.
choice_support(values, probs) == {values[i] : i \in {j \in DOMAIN values : probs[j] > 0}}

(***************************************************************************)
(* calculate_risk(row) (lines 87-191).                                     *)
(***************************************************************************)
\* bmi >= b, with bmi = weight_kg / (height_cm/100)**2 and weight in hundredths.
bmi_at_least(r, b) == r.weight_kg * 100 >= b * r.height_cm * r.height_cm

is_young(r) == r.age < 35

\* genetic_score before normalisation, in tenths (lines 98-112).
genetic_raw(r) ==
      (IF r.family_history = 1 THEN 15 ELSE 0)
    + (IF r.age >= 60 THEN 12 ELSE IF r.age >= 45 THEN 9 ELSE IF r.age >= 35 THEN 6 ELSE 0)
    + (IF r.gender = "Male" THEN 2 ELSE 0)

\* lifestyle_score before normalisation, in tenths (lines 114-133).
lifestyle_raw(r) ==
      (IF r.salt_consumption = "high" THEN (IF is_young(r) THEN 15 ELSE 12) ELSE 0)
    + (IF r.sugar_consumption = "high" THEN (IF is_young(r) THEN 13 ELSE 10) ELSE 0)
    + (IF r.exercise_frequency = "low" THEN (IF is_young(r) THEN 14 ELSE 10) ELSE 0)
    + (IF r.smoking_status = "smoker" THEN (IF is_young(r) THEN 12 ELSE 8)
       ELSE IF r.smoking_status = "quit" THEN (IF is_young(r) THEN 6 ELSE 4)
       ELSE 0)

waist_threshold_swapped(r) == IF r.gender = "Female" THEN 102 ELSE 88
waist_threshold(r) == IF r.gender = "Female" THEN 88 ELSE 102

\* waist_ratio >= x/10, with belly in hundredths of a cm.
waist_ratio_at_least(r, x10) == r.belly_circumference_cm * 10 >= x10 * waist_threshold(r) * 100

\* health_score before normalisation, in tenths (lines 135-150).
health_raw(r) ==
      (IF bmi_at_least(r, 35) THEN (IF is_young(r) THEN 13 ELSE 11)
       ELSE IF bmi_at_least(r, 30) THEN (IF is_young(r) THEN 10 ELSE 8)
       ELSE IF bmi_at_least(r, 25) THEN (IF is_young(r) THEN 7 ELSE 5)
       ELSE 0)
    + (IF waist_ratio_at_least(r, 12) THEN (IF is_young(r) THEN 12 ELSE 10)
       ELSE IF waist_ratio_at_least(r, 10) THEN (IF is_young(r) THEN 9 ELSE 7)
       ELSE 0)

\* np.clip(raw / divisor, 0, 1) with raw and divisor in tenths (lines 153-155).
normalize(raw, divisor) == clip((raw * ScoreOne) \div divisor, 0, ScoreOne)

genetic_norm(r) == normalize(genetic_raw(r), 30)
lifestyle_norm(r) == normalize(lifestyle_raw(r), IF is_young(r) THEN 50 ELSE 40)
health_norm(r) == normalize(health_raw(r), IF is_young(r) THEN 25 ELSE 21)

\* x > tenths/10 for a normalised score x.
score_above(x, tenths) == x * 10 > tenths * ScoreOne

\* risk before the noise term (lines 157-186), RiskOne = 1.0.
risk_before_noise(r) ==
    LET g == genetic_norm(r)
        l == lifestyle_norm(r)
        h == health_norm(r)
    IN  IF is_young(r)
        THEN 25 * g + 45 * l + 30 * h
             + (IF score_above(l, 6) /\ score_above(h, 6) THEN (RiskOne * 20) \div 100 ELSE 0)
             + (IF r.family_history = 1 /\ score_above(l, 6) THEN (RiskOne * 15) \div 100 ELSE 0)
        ELSE 35 * g + 33 * l + 32 * h
             + (IF score_above(l, 7) /\ score_above(h, 7) THEN (RiskOne * 10) \div 100 ELSE 0)
             + (IF r.family_history = 1 /\ score_above(l, 7) THEN (RiskOne * 10) \div 100 ELSE 0)

\* return np.clip(risk + noise, 0, 1) (lines 189-191).
calculate_risk(r, noise) == clip(risk_before_noise(r) + noise, 0, RiskOne)

(***************************************************************************)
(* SpecRisk: one row, as the samplers of lines 14-84 can produce it, scored *)
(* by calculate_risk.                                                      *)
(***************************************************************************)
\* Draws of np.random.normal for age, already truncated to integers.
AgeDraws == {10, 20, 34, 35, 44, 45, 59, 60, 95}
\* age_distribution.clip(15, 90).astype(int) (line 21)
age_of(draw) == clip(draw, 15, 90)
HeightDraws == {160, 170}
\* Values of generate_weight: base_bmi is a continuous draw, so every weight occurs.
WeightDraws == {5000, 7300, 9000, 10200}
\* Draws of np.random.normal(0, 5) in line 48, hundredths of a cm.
BellyNoiseDraws == {-2000, -400, 0, 300, 2000}
\* Draws of np.random.normal(0, 0.02) in line 189.
RiskNoiseDraws == {-(RiskOne \div 20), 0, RiskOne \div 20}

SampledRows ==
    { [ age |-> age_of(a), gender |-> g, height_cm |-> h, weight_kg |-> w,
        belly_circumference_cm |-> belly_circumference(w, age_of(a), bn),
        smoking_status |-> sm, exercise_frequency |-> ex,
        salt_consumption |-> sa, sugar_consumption |-> su, family_history |-> fh ] :
      a \in AgeDraws, g \in {"Male", "Female"}, h \in HeightDraws, w \in WeightDraws,
      bn \in BellyNoiseDraws,
      sm \in {"never", "quit", "smoker"}, ex \in {"low", "high"},
      sa \in {"low", "high"}, su \in {"low", "high"}, fh \in {0, 1} }

\* The rows the samplers give: each category has positive probability for its age.
RowPossible(r) ==
    LET p == get_lifestyle_probs(r.age)
    IN  /\ r.smoking_status \in choice_support(<<"never", "quit", "smoker">>, p[1])
        /\ r.exercise_frequency \in choice_support(<<"low", "high">>, p[2])
        /\ r.salt_consumption \in choice_support(<<"low", "high">>, p[3])
        /\ r.sugar_consumption \in choice_support(<<"low", "high">>, p[4])

NoRow == [age |-> 0]
EmptyFrame == [c \in {} |-> <<>>]

DatasetIdle ==
    /\ n_samples = 0 /\ target_prevalence = 0 /\ fp_tie = FALSE
    /\ pc = 0 /\ status = "idle" /\ data = EmptyFrame /\ probabilities = <<>>
    /\ n_outliers = 0 /\ outlier_indices = <<>> /\ log = <<>>

RiskIdle ==
    /\ rpc = "idle" /\ row = NoRow
    /\ genetic_score = 0 /\ lifestyle_score = 0 /\ health_score = 0 /\ risk = 0

RInit ==
    /\ DatasetIdle
    /\ rpc = "row"
    /\ row \in {r \in SampledRows : RowPossible(r)}
    /\ genetic_score = 0 /\ lifestyle_score = 0 /\ health_score = 0   \* lines 94-96
    /\ risk = 0

\* Lines 90-186: the three scores, normalised, and the weighted risk with its bonuses.
ScoreRow ==
    /\ rpc = "row"
    /\ genetic_score' = genetic_norm(row)
    /\ lifestyle_score' = lifestyle_norm(row)
    /\ health_score' = health_norm(row)
    /\ risk' = risk_before_noise(row)
    /\ rpc' = "scored"
    /\ UNCHANGED <<row, dvars>>

\* Lines 189-191: the noise term and the final clip.
ReturnRisk ==
    /\ rpc = "scored"
    /\ \E noise \in RiskNoiseDraws : risk' = calculate_risk(row, noise)
    /\ rpc' = "returned"
    /\ UNCHANGED <<row, genetic_score, lifestyle_score, health_score, dvars>>

RNext == ScoreRow \/ ReturnRisk

SpecRisk == RInit /\ [][RNext]_vars

(***************************************************************************)
(* The DataFrame.  A cell holding v is <<v>>; NaN is the empty cell <<>>.   *)
(***************************************************************************)
Some(v) == <<v>>
NaN == <<>>
Val(cell) == cell[1]

\* data[name] = vec : add or replace a column.
set_column(df, name, vec) ==
    [c \in (DOMAIN df) \cup {name} |-> IF c = name THEN vec ELSE df[c]]

\* The row at 1-based position i, as calculate_risk reads it.
row_of(df, i) ==
    [ age |-> Val(df["age"][i]), gender |-> Val(df["gender"][i]),
      height_cm |-> Val(df["height_cm"][i]), weight_kg |-> Val(df["weight_kg"][i]),
      belly_circumference_cm |-> Val(df["belly_circumference_cm"][i]),
      smoking_status |-> Val(df["smoking_status"][i]),
      exercise_frequency |-> Val(df["exercise_frequency"][i]),
      salt_consumption |-> Val(df["salt_consumption"][i]),
      sugar_consumption |-> Val(df["sugar_consumption"][i]),
      family_history |-> Val(df["family_history"][i]) ]

\* seq[a:b] of Python, seq 1-based here.
py_slice(seq, a, b) == SubSeq(seq, a + 1, b)

\* data.loc[positions, col] = values succeeds only with as many values as rows
\* (pandas: "Must have equal len keys and value when setting with an iterable").
loc_fits(positions, values) == Len(positions) = Len(values)

\* data.loc[positions, col] = values, positions 0-based index labels.
loc_set(df, positions, col, values) ==
    [c \in DOMAIN df |->
        IF c # col THEN df[c]
        ELSE [i \in DOMAIN df[c] |->
                IF \E j \in DOMAIN positions : positions[j] + 1 = i
                THEN Some(values[CHOOSE j \in DOMAIN positions : positions[j] + 1 = i])
                ELSE df[c][i]]]

(***************************************************************************)
(* The statements of create_dummy_data, in program order.                  *)
(***************************************************************************)
Program_calibrate_after_label ==
    << "base", "height", "weight", "belly", "lifestyle", "binary", "risk", "label",
       "prevalence",
       "outlier_indices", "outlier_weight", "outlier_height", "outlier_belly",
       "outlier_age", "timestamps", "missing", "return" >>
Program ==
    << "base", "height", "weight", "belly", "lifestyle", "binary", "risk", "label",
       "outlier_indices", "outlier_weight", "outlier_height", "outlier_belly",
       "outlier_age", "timestamps", "missing", "prevalence", "return" >>

At(stmt) == status = "running" /\ pc \in DOMAIN Program /\ Program[pc] = stmt

(***************************************************************************)
(* The random source of a dataset run.  The feature columns take one       *)
(* representative vector of draws each; the label draw, the outlier        *)
(* choices, the missing-value draws and the rows picked by the prevalence  *)
(* loop are chosen among several.                                          *)
(***************************************************************************)
normal_age_young(size) == [i \in 1..size |-> IF i % 2 = 1 THEN 25 ELSE 12]
normal_age_old(size) == [i \in 1..size |-> IF i % 2 = 1 THEN 50 ELSE 97]
choice_gender(size) == [i \in 1..size |-> IF i % 3 = 0 THEN "Female" ELSE "Male"]
normal_height(mean, size) == [i \in 1..size |-> mean]
choice_cycle(values, probs, i) ==
    LET support == {j \in DOMAIN values : probs[j] > 0}
        k == (i % Cardinality(support)) + 1
    IN  values[CHOOSE j \in support : Cardinality({m \in support : m <= j}) = k]
binomial_cycle(period, size) == [i \in 1..size |-> IF i % period = 0 THEN 1 ELSE 0]
randint_days(size) == [i \in 1..size |-> (i * 37) % 365]

\* np.random.binomial(1, p') with p' = 1/(1+exp(-12(p-0.5))): the sigmoid of any
\* probability lies strictly between 0 and 1, so each row can draw 0 or 1.
LabelVectors(n) ==
    IF n <= MaxFull
    THEN [1..n -> {0, 1}]
    ELSE {[i \in 1..n |-> IF i <= k THEN 1 ELSE 0] :
            k \in {n \div 4, (3 * n) \div 10, n \div 3}}

\* np.random.choice(n, k, replace=False): k distinct positions of 0..n-1.
OutlierIndexVectors(n, k) ==
    {[j \in 1..k |-> j - 1], [j \in 1..k |-> n - j]}

\* np.random.choice(values, size)
ChoiceVectors(values, size) ==
    {[i \in 1..size |-> values[j]] : j \in {1, Len(values)}}

\* np.random.random(n), in hundredths; the loop of lines 233-235 is explored with
\* the same vector for each of its columns.
UniformVectors(n) ==
    {[i \in 1..n |-> IF first_only /\ i > 1 THEN 99 ELSE v] :
        v \in {1, 50}, first_only \in BOOLEAN}

\* data[data[col] == v].sample(1).index[0]: a row of the column holding v.  Short
\* selections offer every row, long ones their first and their last row.
SamplePicks(col, v) ==
    LET rows == {i \in DOMAIN col : col[i] = Some(v)}
    IN  IF Cardinality(rows) <= MaxFull
        THEN rows
        ELSE { CHOOSE i \in DOMAIN col :
                   col[i] = Some(v) /\ \A j \in 1..(i - 1) : col[j] # Some(v),
               CHOOSE i \in DOMAIN col :
                   col[i] = Some(v) /\ \A j \in (i + 1)..Len(col) : col[j] # Some(v) }

(***************************************************************************)
(* Constants of create_dummy_data.                                         *)
(***************************************************************************)
weight_outliers == <<100, 200, 80000, 100000>>          \* [1, 2, 800, 1000] kg
height_outliers == <<10, 15, 350, 400>>
belly_outliers == <<1000, 1500, 40000, 50000>>          \* [10, 15, 400, 500] cm
age_outliers == <<1, 2, 3, 120, 130, 140>>

missing_probs_with_label ==
    << <<"self_emotional", 90>>, <<"sugar_consumption", 5>>, <<"salt_consumption", 5>>,
       <<"exercise_frequency", 7>>, <<"smoking_status", 3>>, <<"gender", 2>>,
       <<"weight_kg", 3>>, <<"height_cm", 3>>, <<"belly_circumference_cm", 3>>,
       <<"family_history", 3>>, <<"label_hypertension", 3>> >>
missing_probs ==
    << <<"self_emotional", 90>>, <<"sugar_consumption", 5>>, <<"salt_consumption", 5>>,
       <<"exercise_frequency", 7>>, <<"smoking_status", 3>>, <<"gender", 2>>,
       <<"weight_kg", 3>>, <<"height_cm", 3>>, <<"belly_circumference_cm", 3>>,
       <<"family_history", 3>> >>

\* n_outliers = int(n_samples * 0.02)
outlier_count(n) == (n * 2) \div 100

(***************************************************************************)
(* The prevalence loop's tests (lines 238-239).                            *)
(***************************************************************************)
\* data['label_hypertension'].sum() and .count(): mean() skips NaN.
label_sum(df) ==
    Cardinality({i \in DOMAIN df["label_hypertension"] : df["label_hypertension"][i] = Some(1)})
label_count(df) ==
    Cardinality({i \in DOMAIN df["label_hypertension"] : df["label_hypertension"][i] # NaN})

\* abs(mean - t) > 0.01 with mean = s/cnt and t in hundredths.  The mean of no
\* value is NaN, and every comparison with NaN is False.  When the exact
\* difference is 0.01 the float comparison goes either way (0.3 - 0.29 > 0.01 is
\* True, abs(0.28 - 0.29) > 0.01 is False): tie says which.
out_of_tolerance_loose(s, cnt, t, tie) == cnt > 0 /\ Abs(100 * s - t * cnt) > 10 * cnt
out_of_tolerance(s, cnt, t, tie) ==
    /\ cnt > 0
    /\ LET d == Abs(100 * s - t * cnt)
       IN  d > cnt \/ (d = cnt /\ tie)

\* mean > target_prevalence
mean_above_inverted(s, cnt, t) == 100 * s <= t * cnt
mean_above(s, cnt, t) == 100 * s > t * cnt

(***************************************************************************)
(* Spec: create_dummy_data(n_samples, target_prevalence).                  *)
(***************************************************************************)
\* The calls explored: n_samples and target_prevalence (hundredths), valid and
\* invalid.  200 is the least sample count whose outlier injection overwrites a
\* cell; it is run with the default target, 0.29.  n_samples = 0 is left out: what
\* pandas makes of apply() on an empty frame is not decided by this source.
SmallNs == {-1, 1, 2, 3, 4, 10, 50}
SmallTs == {0, 25, 29, 100, 150}
LargeNs == {200}
LargeTs == {29}
Configs == (SmallNs \X SmallTs) \cup (LargeNs \X LargeTs)

cfgvars == <<n_samples, target_prevalence, fp_tie>>

DInit ==
    /\ \E cfg \in Configs : n_samples = cfg[1] /\ target_prevalence = cfg[2]
    /\ fp_tie \in BOOLEAN
    /\ pc = 1
    /\ status = "running"
    /\ data = EmptyFrame
    /\ probabilities = <<>>
    /\ n_outliers = 0
    /\ outlier_indices = <<>>
    /\ log = <<>>
    /\ RiskIdle

\* The statement completes: control moves to the next one.
Step(newdata, newlog) ==
    /\ pc' = pc + 1
    /\ data' = newdata
    /\ log' = newlog
    /\ UNCHANGED <<status, probabilities, n_outliers, outlier_indices, cfgvars, rvars>>

\* The statement raises: create_dummy_data is left without a result.
Raise ==
    /\ status' = "ValueError"
    /\ UNCHANGED <<pc, data, log, probabilities, n_outliers, outlier_indices, cfgvars, rvars>>

\* Lines 11-23: the two age cohorts and the frame of id, age, gender.
\* np.random.normal(.., n) raises for n < 0; pd.DataFrame raises when its
\* arrays differ in length.
GenerateBase ==
    /\ At("base")
    /\ IF n_samples < 0
       THEN Raise
       ELSE LET half == n_samples \div 2
                age_distribution == normal_age_young(half) \o normal_age_old(half)
                gender == choice_gender(n_samples)
            IN  IF Len(age_distribution) # n_samples
                THEN Raise
                ELSE Step([c \in {"id", "age", "gender"} |->
                             [i \in 1..n_samples |->
                                 IF c = "id" THEN Some(i)
                                 ELSE IF c = "age" THEN Some(age_of(age_distribution[i]))
                                 ELSE Some(gender[i])]],
                          log)

\* Lines 26-30
GenerateHeight ==
    /\ At("height")
    /\ LET male == normal_height(175, n_samples)
           female == normal_height(162, n_samples)
       IN  Step(set_column(data, "height_cm",
                    [i \in 1..n_samples |->
                        IF data["gender"][i] = Some("Male") THEN Some(male[i]) ELSE Some(female[i])]),
                log)

\* Lines 42-43
GenerateWeight ==
    /\ At("weight")
    /\ Step(set_column(data, "weight_kg",
                [i \in 1..n_samples |->
                    Some(generate_weight(Val(data["height_cm"][i]), Val(data["age"][i]),
                                         base_bmi_mean(Val(data["age"][i]))))]),
            log)

\* Lines 46-48
GenerateBelly ==
    /\ At("belly")
    /\ Step(set_column(data, "belly_circumference_cm",
                [i \in 1..n_samples |->
                    Some(belly_circumference(Val(data["weight_kg"][i]), Val(data["age"][i]), 0))]),
            Append(log, "FeatureSampler"))

\* Lines 66-80
GenerateLifestyle ==
    /\ At("lifestyle")
    /\ LET probs(i) == get_lifestyle_probs(Val(data["age"][i]))
           smoking == [i \in 1..n_samples |->
                          Some(choice_cycle(<<"never", "quit", "smoker">>, probs(i)[1], i))]
           exercise == [i \in 1..n_samples |->
                          Some(choice_cycle(<<"low", "high">>, probs(i)[2], i))]
           salt == [i \in 1..n_samples |->
                          Some(choice_cycle(<<"low", "high">>, probs(i)[3], i + 1))]
           sugar == [i \in 1..n_samples |->
                          Some(choice_cycle(<<"low", "high">>, probs(i)[4], i \div 2))]
       IN  Step(set_column(set_column(set_column(set_column(data,
                    "smoking_status", smoking), "exercise_frequency", exercise),
                    "salt_consumption", salt), "sugar_consumption", sugar),
                log)

\* Lines 83-84
GenerateBinary ==
    /\ At("binary")
    /\ LET emotional == binomial_cycle(2, n_samples)
           family == binomial_cycle(3, n_samples)
       IN  Step(set_column(set_column(data,
                    "self_emotional", [i \in 1..n_samples |-> Some(emotional[i])]),
                    "family_history", [i \in 1..n_samples |-> Some(family[i])]),
                Append(log, "LifestyleSampler"))

\* Line 194: probabilities = data.apply(calculate_risk, axis=1)
ApplyCalculateRisk ==
    /\ At("risk")
    /\ probabilities' = [i \in 1..n_samples |-> calculate_risk(row_of(data, i), 0)]
    /\ pc' = pc + 1
    /\ log' = Append(log, "RiskScorer")
    /\ UNCHANGED <<status, data, n_outliers, outlier_indices, cfgvars, rvars>>

\* Lines 197-199: the sigmoid and the label draw.
SampleLabel ==
    /\ At("label")
    /\ \E labels \in LabelVectors(n_samples) :
          Step(set_column(data, "label_hypertension",
                   [i \in 1..n_samples |-> Some(labels[i])]),
               Append(log, "LabelSampler"))

\* Lines 202-203
ChooseOutliers ==
    /\ At("outlier_indices")
    /\ n_outliers' = outlier_count(n_samples)
    /\ \E indices \in OutlierIndexVectors(n_samples, outlier_count(n_samples)) :
          outlier_indices' = indices
    /\ pc' = pc + 1
    /\ UNCHANGED <<status, data, probabilities, log, cfgvars, rvars>>

\* One of the four assignments of lines 205-212: data.loc[positions, col] =
\* np.random.choice(extremes, n_outliers//4).
OverwriteOutliers(positions, col, extremes, newlog) ==
    \E values \in ChoiceVectors(extremes, n_outliers \div 4) :
        IF loc_fits(positions, values)
        THEN Step(loc_set(data, positions, col, values), newlog)
        ELSE Raise

\* Lines 205-206
OutlierWeight ==
    /\ At("outlier_weight")
    /\ OverwriteOutliers(py_slice(outlier_indices, 0, n_outliers \div 4),
                         "weight_kg", weight_outliers, log)

\* Lines 207-208
OutlierHeight ==
    /\ At("outlier_height")
    /\ OverwriteOutliers(py_slice(outlier_indices, n_outliers \div 4, n_outliers \div 2),
                         "height_cm", height_outliers, log)

\* Lines 209-210
OutlierBelly ==
    /\ At("outlier_belly")
    /\ OverwriteOutliers(py_slice(outlier_indices, n_outliers \div 2, (3 * n_outliers) \div 4),
                         "belly_circumference_cm", belly_outliers, log)

\* Lines 211-212
OutlierAge ==
    /\ At("outlier_age")
    /\ OverwriteOutliers(py_slice(outlier_indices, (3 * n_outliers) \div 4, Len(outlier_indices)),
                         "age", age_outliers, Append(log, "OutlierInjector"))

\* Lines 215-217
AddTimestamps ==
    /\ At("timestamps")
    /\ LET random_days == randint_days(n_samples)
       IN  Step(set_column(data, "input_time", [i \in 1..n_samples |-> Some(random_days[i])]),
                log)

\* for col, prob in probs: mask = u < prob; data.loc[mask, col] = np.nan
RECURSIVE apply_missing(_, _, _)
apply_missing(df, probs, u) ==
    IF probs = <<>> THEN df
    ELSE LET col == Head(probs)[1]
             prob == Head(probs)[2]
         IN  apply_missing(
                 set_column(df, col,
                     [i \in 1..Len(u) |-> IF u[i] < prob THEN NaN ELSE df[col][i]]),
                 Tail(probs), u)

\* Lines 220-235
AddMissingValues ==
    /\ At("missing")
    /\ \E u \in UniformVectors(Len(data["id"])) :
          Step(apply_missing(data, missing_probs, u), Append(log, "MissingValueInjector"))

\* Lines 238-244: one evaluation of the loop test and, when it holds, one pass
\* through the body.  sample(1) of an empty selection raises.
AdjustPrevalence ==
    /\ At("prevalence")
    /\ LET s == label_sum(data)
           cnt == label_count(data)
           from == IF mean_above(s, cnt, target_prevalence) THEN 1 ELSE 0
       IN  IF ~out_of_tolerance(s, cnt, target_prevalence, fp_tie)
           THEN Step(data, Append(log, "PrevalenceCalibrator"))
           ELSE IF SamplePicks(data["label_hypertension"], from) = {}
                THEN Raise
                ELSE \E idx \in SamplePicks(data["label_hypertension"], from) :
                        /\ data' = [data EXCEPT !["label_hypertension"][idx] = Some(1 - from)]
                        /\ UNCHANGED <<pc, status, log, probabilities, n_outliers,
                                       outlier_indices, cfgvars, rvars>>

\* Line 246
Return ==
    /\ At("return")
    /\ status' = "returned"
    /\ UNCHANGED <<pc, data, log, probabilities, n_outliers, outlier_indices, cfgvars, rvars>>

DNext ==
    \/ GenerateBase \/ GenerateHeight \/ GenerateWeight \/ GenerateBelly
    \/ GenerateLifestyle \/ GenerateBinary \/ ApplyCalculateRisk \/ SampleLabel
    \/ ChooseOutliers \/ OutlierWeight \/ OutlierHeight \/ OutlierBelly \/ OutlierAge
    \/ AddTimestamps \/ AddMissingValues \/ AdjustPrevalence \/ Return

Spec == DInit /\ [][DNext]_vars

\* A single sequential process: a statement that can run does run.
FairSpec == DInit /\ [][DNext]_vars /\ WF_vars(DNext)

(***************************************************************************)
(* Claims about calculate_risk (checked under SpecRisk).                   *)
(***************************************************************************)
\* C8: once calculate_risk has normalised them, genetic_score, lifestyle_score and
\* health_score each lie in [0,1]; the risk it returns, after the interaction
\* bonuses and the noise term, lies in [0,1].
C8_ScoresAndRiskInUnitInterval ==
    /\ rpc \in {"scored", "returned"} =>
          /\ 0 <= genetic_score /\ genetic_score <= ScoreOne
          /\ 0 <= lifestyle_score /\ lifestyle_score <= ScoreOne
          /\ 0 <= health_score /\ health_score <= ScoreOne
    /\ rpc = "returned" => (0 <= risk /\ risk <= RiskOne)

\* A young row whose four bad habits sum to 5.4 > 5.0 and whose weighted risk with
\* both bonuses exceeds 1 has been scored and returned: both clips were needed.
C8_Witness ==
    /\ rpc = "returned"
    /\ row.age < 35 /\ row.family_history = 1
    /\ row.salt_consumption = "high" /\ row.sugar_consumption = "high"
    /\ row.exercise_frequency = "low" /\ row.smoking_status = "smoker"
    /\ lifestyle_score = ScoreOne
    /\ health_score = ScoreOne
    /\ risk = RiskOne

\* The scenario row of C9: age 20, family history, high salt and sugar, low
\* exercise, smoker, 170 cm, 90 kg; either gender, any sampled belly circumference.
C9_ScenarioRow ==
    /\ row # NoRow
    /\ row.age = 20 /\ row.family_history = 1
    /\ row.salt_consumption = "high" /\ row.sugar_consumption = "high"
    /\ row.exercise_frequency = "low" /\ row.smoking_status = "smoker"
    /\ row.height_cm = 170 /\ row.weight_kg = 9000

\* The belly circumference reaches the gender's waist threshold (102 cm, 88 cm).
C9_WaistAtThreshold ==
    row.belly_circumference_cm >= (IF row.gender = "Female" THEN 8800 ELSE 10200)

\* The risk before noise is the weighted sum of the three scores plus the given bonuses.
C9_RiskIs(bonus100) ==
    risk = 25 * genetic_score + 45 * lifestyle_score + 30 * health_score
           + bonus100 * ScoreOne

\* C9 as stated: the scenario row, for either gender and any belly circumference,
\* has BMI in [30,35), lifestyle_score > 0.6 and health_score > 0.6, receives the
\* +0.20 bonus, and has a risk above 0.7 before noise.
C9_Original ==
    (C9_ScenarioRow /\ rpc = "scored") =>
        /\ 9000 * 100 >= 30 * 170 * 170 /\ 9000 * 100 < 35 * 170 * 170
        /\ lifestyle_score * 10 > 6 * ScoreOne
        /\ health_score * 10 > 6 * ScoreOne
        /\ C9_RiskIs(20 + 15)
        /\ risk * 10 > 7 * RiskOne

\* C9 amended: the scenario row has BMI in [30,35), lifestyle_score > 0.6 and a
\* risk above 0.7 before noise in every case; health_score > 0.6 and the +0.20
\* bonus hold exactly when its belly circumference reaches the waist threshold of
\* its gender (102 cm male, 88 cm female); below it health_score is 0.4 and only
\* the +0.15 family-history bonus is added.
C9_ScenarioRisk ==
    (C9_ScenarioRow /\ rpc = "scored") =>
        /\ 9000 * 100 >= 30 * 170 * 170 /\ 9000 * 100 < 35 * 170 * 170
        /\ lifestyle_score * 10 > 6 * ScoreOne
        /\ risk * 10 > 7 * RiskOne
        /\ IF C9_WaistAtThreshold
           THEN health_score * 10 > 6 * ScoreOne /\ C9_RiskIs(20 + 15)
           ELSE health_score * 10 = 4 * ScoreOne /\ C9_RiskIs(15)

\* The scenario row has been scored with the +0.20 bonus applied.
C9_Witness ==
    /\ C9_ScenarioRow /\ rpc = "scored"
    /\ C9_WaistAtThreshold
    /\ health_score * 10 > 6 * ScoreOne
    /\ C9_RiskIs(20 + 15)

(***************************************************************************)
(* Claims about create_dummy_data (checked under Spec and FairSpec).       *)
(***************************************************************************)
IsPrefix(s, t) == Len(s) <= Len(t) /\ \A i \in 1..Len(s) : s[i] = t[i]

HasLabels == "label_hypertension" \in DOMAIN data
\* The stage has completed.
Completed(stage) == \E i \in DOMAIN log : log[i] = stage
\* The number of rows labelled 1.
Positives == Cardinality({i \in 1..n_samples : data["label_hypertension"][i] = <<1>>})
ValidTarget == 0 < target_prevalence /\ target_prevalence < 100
\* The prevalence loop is running.
InLoop == At("prevalence")
\* |k/N - t| <= 0.01 and |k/N - t| < 0.01, exactly.
WithinTolerance(k) ==
    LET d == 100 * k - target_prevalence * n_samples
    IN  -n_samples <= d /\ d <= n_samples
StrictlyWithinTolerance(k) ==
    LET d == 100 * k - target_prevalence * n_samples
    IN  -n_samples < d /\ d < n_samples
\* A count at which the loop's floating-point test lets the loop end.
Accepted(k) == StrictlyWithinTolerance(k) \/ (WithinTolerance(k) /\ ~fp_tie)
\* Some cell of the frame is NaN; some cell holds an injected extreme value.
SomeCellNaN == \E c \in DOMAIN data : \E i \in DOMAIN data[c] : data[c][i] = <<>>
ExtremeRows(col, extremes) ==
    {i \in 1..n_samples : \E j \in DOMAIN extremes : data[col][i] = <<extremes[j]>>}

\* C1: for every N >= 1 and 0 < t < 1, every labelling and every choice of rows,
\* the prevalence loop ends (tolerance reached or an explicit failure); it never
\* runs forever.
C1_LoopEnds == (n_samples >= 1 /\ ValidTarget /\ InLoop) ~> ~InLoop

\* C2: a returned dataset has exactly N labels and its fraction of positive
\* labels differs from the target prevalence by at most 0.01.
C2_ReturnedWithinTolerance ==
    status = "returned" =>
        /\ Len(data["label_hypertension"]) = n_samples
        /\ \A i \in 1..n_samples : data["label_hypertension"][i] \in {<<0>>, <<1>>}
        /\ WithinTolerance(Positives)

\* A 200-row dataset is returned after the loop flipped labels up from 50 to 57
\* positives, with outliers injected and cells nulled on the way.
C2_Witness ==
    /\ status = "returned" /\ n_samples = 200 /\ target_prevalence = 29
    /\ Positives = 57
    /\ SomeCellNaN
    /\ ExtremeRows("age", <<1, 2, 3, 120, 130, 140>>) # {}

\* C3: for every N >= 1, odd or even, the base frame is built (the two cohorts
\* supply N ages) and has exactly N rows with ids 1..N.
C3_EveryPositiveNGivesNRows ==
    n_samples >= 1 =>
        /\ ~(status = "ValueError" /\ data = EmptyFrame)
        /\ data # EmptyFrame =>
              /\ \A c \in DOMAIN data : Len(data[c]) = n_samples
              /\ \A i \in 1..n_samples : data["id"][i] = <<i>>

\* C4: for every N the outlier injection completes, and right after it exactly
\* 4*floor(floor(0.02*N)/4) rows are overwritten: floor(floor(0.02*N)/4) rows in each
\* of weight_kg, height_cm, belly_circumference_cm, age, no row in two columns.
C4_OutliersInFourEqualGroups ==
    LET q == ((n_samples * 2) \div 100) \div 4
        W == ExtremeRows("weight_kg", <<100, 200, 80000, 100000>>)
        H == ExtremeRows("height_cm", <<10, 15, 350, 400>>)
        B == ExtremeRows("belly_circumference_cm", <<1000, 1500, 40000, 50000>>)
        A == ExtremeRows("age", <<1, 2, 3, 120, 130, 140>>)
    IN  /\ (HasLabels /\ ~Completed("OutlierInjector")) => status # "ValueError"
        /\ (Completed("OutlierInjector") /\ "input_time" \notin DOMAIN data) =>
              /\ Cardinality(W) = q /\ Cardinality(H) = q
              /\ Cardinality(B) = q /\ Cardinality(A) = q
              /\ Cardinality(W \cup H \cup B \cup A) = 4 * q

\* C5: with N <= 0 or t outside (0,1) nothing is ever sampled: no column is
\* built, no stage completes, no risk is computed.
C5_InvalidConfigNeverSampled ==
    (n_samples <= 0 \/ ~ValidTarget) =>
        (data = EmptyFrame /\ log = <<>> /\ probabilities = <<>>)

\* C6 as stated: the stages complete in the order FeatureSampler, LifestyleSampler,
\* RiskScorer, LabelSampler, PrevalenceCalibrator, OutlierInjector,
\* MissingValueInjector.
C6_Original ==
    IsPrefix(log, <<"FeatureSampler", "LifestyleSampler", "RiskScorer", "LabelSampler",
                    "PrevalenceCalibrator", "OutlierInjector", "MissingValueInjector">>)

\* C6 amended: the stages complete in the order FeatureSampler, LifestyleSampler,
\* RiskScorer, LabelSampler, OutlierInjector, MissingValueInjector,
\* PrevalenceCalibrator: no cell is nulled before outlier injection has finished,
\* and the prevalence loop runs last, on the nulled frame.
C6_StagesInCodeOrder ==
    /\ IsPrefix(log, <<"FeatureSampler", "LifestyleSampler", "RiskScorer", "LabelSampler",
                       "OutlierInjector", "MissingValueInjector", "PrevalenceCalibrator">>)
    /\ SomeCellNaN => Completed("OutlierInjector")
    /\ InLoop => Completed("MissingValueInjector")
    /\ status = "returned" => Len(log) = 7

\* A 200-row run has returned with all seven stages completed, an outlier
\* written and a cell nulled.
C6_Witness ==
    /\ status = "returned" /\ n_samples = 200
    /\ Len(log) = 7 /\ log[5] = "OutlierInjector" /\ log[7] = "PrevalenceCalibrator"
    /\ ExtremeRows("weight_kg", <<100, 200, 80000, 100000>>) # {}
    /\ SomeCellNaN

\* C7: once the label column exists, a step changes it only as one iteration of
\* the prevalence loop, which changes the label of exactly one row and no other
\* cell; no step changes id; id, age, input_time and label_hypertension never
\* hold NaN.
C7_StagesWriteOwnColumns ==
    [][ /\ (HasLabels /\ data'["label_hypertension"] # data["label_hypertension"]) =>
              /\ InLoop
              /\ DOMAIN data' = DOMAIN data
              /\ Cardinality({i \in 1..n_samples :
                     data'["label_hypertension"][i] # data["label_hypertension"][i]}) = 1
              /\ \A c \in DOMAIN data \ {"label_hypertension"} : data'[c] = data[c]
        /\ "id" \in DOMAIN data => data'["id"] = data["id"]
        /\ \A c \in {"id", "age", "input_time", "label_hypertension"} \cap DOMAIN data' :
              \A i \in DOMAIN data'[c] : data'[c][i] # <<>>
      ]_vars

\* A 200-row run has returned with 59 positives (the loop flipped labels down
\* from 66 or 60), after an outlier overwrote an age and cells were nulled.
C7_Witness ==
    /\ status = "returned" /\ n_samples = 200 /\ target_prevalence = 29
    /\ Positives = 59
    /\ ExtremeRows("age", <<1, 2, 3, 120, 130, 140>>) # {}
    /\ \E i \in 1..n_samples : data["gender"][i] = <<>>

\* One pass of the loop body with 0 < t < 1: it does not fail, and it moves the
\* positive count by exactly one, down when mean > t and up otherwise.
C10_StepTowardTarget ==
    (InLoop /\ ValidTarget) =>
        /\ status' # "ValueError"
        /\ data' # data =>
              Positives' = Positives +
                  (IF 100 * Positives > target_prevalence * n_samples THEN -1 ELSE 1)

\* The two adjacent counts that straddle t*N.
C10_Straddle ==
    LET lo == (target_prevalence * n_samples) \div 100 IN {lo, lo + 1}

\* The distance from count p to the nearest count satisfying Ok.
C10_Distance(p, Ok(_)) ==
    LET D == {IF p >= k THEN p - k ELSE k - p : k \in {j \in 0..n_samples : Ok(j)}}
    IN  CHOOSE d \in D : \A e \in D : d <= e

\* C10 as stated: with 0 < t < 1 the loop never picks from an empty class and
\* moves the count by one toward t*N; it reaches tolerance iff some k in 0..N has
\* |k/N - t| <= 0.01: it ends at such a count, and while one exists every pass
\* brings the count nearer to one; no such k is missing unless N < 50, and then
\* the loop never ends, the count alternating between the two counts that
\* straddle t.
C10_Original ==
    /\ [][C10_StepTowardTarget]_vars
    /\ [][(InLoop /\ ValidTarget) =>
             IF WithinTolerance(Positives)
             THEN data' = data /\ ~InLoop'
             ELSE data' # data /\ InLoop']_vars
    /\ [][(InLoop /\ ValidTarget /\ (\E k \in 0..n_samples : WithinTolerance(k))
             /\ data' # data)
             => C10_Distance(Positives', WithinTolerance) < C10_Distance(Positives, WithinTolerance)]_vars
    /\ [](InLoop /\ ValidTarget /\ ~(\E k \in 0..n_samples : WithinTolerance(k))
             => n_samples < 50)
    /\ [][(InLoop /\ ValidTarget /\ ~(\E k \in 0..n_samples : WithinTolerance(k))
             /\ Positives \in C10_Straddle)
             => (Positives' \in C10_Straddle /\ Positives' # Positives)]_vars

\* C10 amended: with 0 < t < 1 the loop never picks from an empty class and moves
\* the count by one toward t*N.  It ends exactly at the counts its floating-point
\* test accepts: every k with |k/N - t| < 0.01, and a k with |k/N - t| = 0.01 only
\* when abs(k/N - t) > 0.01 rounds to false.  While an accepted count exists every
\* pass brings the count nearer to one, so the loop reaches tolerance iff one
\* exists; a k with |k/N - t| < 0.01 exists whenever N > 50; and when no count is
\* accepted the loop never ends, the count alternating between the two counts
\* that straddle t.
C10_LoopConvergence ==
    /\ [][C10_StepTowardTarget]_vars
    /\ [][(InLoop /\ ValidTarget) =>
             IF Accepted(Positives)
             THEN data' = data /\ ~InLoop'
             ELSE data' # data /\ InLoop']_vars
    /\ [][(InLoop /\ ValidTarget /\ (\E k \in 0..n_samples : Accepted(k)) /\ data' # data)
             => C10_Distance(Positives', Accepted) < C10_Distance(Positives, Accepted)]_vars
    /\ [](InLoop /\ ValidTarget /\ ~(\E k \in 0..n_samples : StrictlyWithinTolerance(k))
             => n_samples <= 50)
    /\ [][(InLoop /\ ValidTarget /\ ~(\E k \in 0..n_samples : Accepted(k))
             /\ Positives \in C10_Straddle)
             => (Positives' \in C10_Straddle /\ Positives' # Positives)]_vars

\* With N = 10 and t = 0.29 the loop, whose test rejects 3/10, has flipped row 1
\* down and stands at 2 positives, about to flip a row up again.
C10_Witness ==
    /\ InLoop /\ n_samples = 10 /\ target_prevalence = 29 /\ fp_tie
    /\ data["label_hypertension"][1] = <<0>>
    /\ Positives = 2

====
